---- MODULE Spec2Model ----
(***************************************************************************)
(* The organisation-tree dump of src/main.rs as a state machine: main's    *)
(* selector loop, the header and root row, fetch_users with the process-   *)
(* wide semaphore, and the recursion of fetch_reportee_tree_recursive as   *)
(* an explicit stack of frames.  The directory service is the environment: *)
(* it holds a directory of paged direct-reports lists and may fail any     *)
(* call.                                                                   *)
(***************************************************************************)
EXTENDS Integers, Sequences, FiniteSets, TLC

\* ------------------------------------------------------------------ bounds
\* Number of users in the directory.
MaxUsers == 4
\* Longest candidate list the search returns.
MaxCandidates == 2
\* Number of rejected index inputs in one run.
MaxRejected == 1
\* Number of calls of the service in one run; no run over a tree-shaped
\* directory makes as many.
MaxCalls == 12

\* ------------------------------------------------------- program constants
MAX_CONCURRENT_REQUESTS == 10

\* ------------------------------------------------------------ Option<T>
None == << >>
Some(x) == << x >>

\* ------------------------------------------------------------ directory data
\* The users of the directory, by index: ids are unique, display names are not.
UserIds == << "u1", "u2", "u3", "u4", "u5", "u6" >>
DisplayNames == << "Ann", "Bob", "Ann", "Cy", "Bob", "Cy" >>
JobTitles ==
    << Some("Staff Engineer"), None, Some("Senior OUTSOURCE Engineer"),
       Some("Staff Engineer"), None, Some("Senior OUTSOURCE Engineer") >>
Departments == << Some("R&D"), None, Some("R&D"), None, Some("R&D"), None >>
Mails == << Some("ann@x"), Some("bob@x"), None, None, Some("bob2@x"), None >>
Offices ==
    << Some("Building 12"), Some("Off-Shore Hub 3"), None,
       Some("Building 12"), Some("Off-Shore Hub 3"), None >>

\* struct User, as deserialized from one record of a response.
User(i) ==
    [ id |-> UserIds[i], display_name |-> DisplayNames[i],
      job_title |-> JobTitles[i], department |-> Departments[i],
      mail |-> Mails[i], office_location |-> Offices[i] ]

Ids == { UserIds[i] : i \in 1..MaxUsers }

\* The characters of the texts that occur in the model.
Chars(s) ==
    CASE s = "unknown" -> << "u","n","k","n","o","w","n" >>
      [] s = "Staff Engineer" ->
            << "S","t","a","f","f"," ","E","n","g","i","n","e","e","r" >>
      [] s = "Senior OUTSOURCE Engineer" ->
            << "S","e","n","i","o","r"," ","O","U","T","S","O","U","R","C","E",
               " ","E","n","g","i","n","e","e","r" >>
      [] s = "Building 12" -> << "B","u","i","l","d","i","n","g"," ","1","2" >>
      [] s = "Off-Shore Hub 3" ->
            << "O","f","f","-","S","h","o","r","e"," ","H","u","b"," ","3" >>
      [] s = "CONSULT" -> << "C","O","N","S","U","L","T" >>
      [] s = "OUTSOURCE" -> << "O","U","T","S","O","U","R","C","E" >>
      [] s = "Outsource" -> << "O","u","t","s","o","u","r","c","e" >>
      [] s = "Off-Shore" -> << "O","f","f","-","S","h","o","r","e" >>
      [] s = "Off-Site" -> << "O","f","f","-","S","i","t","e" >>
      [] s = "" -> << >>
      [] s = "none" -> << "n","o","n","e" >>
      [] s = "u1" -> << "u","1" >>
      [] s = "u2" -> << "u","2" >>
      [] s = "Ann" -> << "A","n","n" >>
      [] s = "Bob" -> << "B","o","b" >>
      [] s = "Doe, Jane" -> << "D","o","e",","," ","J","a","n","e" >>
      [] s = "ann@x" -> << "a","n","n","@","x" >>
      [] s = "R&D" -> << "R","&","D" >>
      [] s = "CONSULTANT" -> << "C","O","N","S","U","L","T","A","N","T" >>
      [] s = "Outsourced QA" ->
            << "O","u","t","s","o","u","r","c","e","d"," ","Q","A" >>
      [] s = "Consultant" -> << "C","o","n","s","u","l","t","a","n","t" >>
      [] s = "outsource lead" ->
            << "o","u","t","s","o","u","r","c","e"," ","l","e","a","d" >>
      [] s = "off-shore annex" ->
            << "o","f","f","-","s","h","o","r","e"," ","a","n","n","e","x" >>
      [] s = "Offshore" -> << "O","f","f","s","h","o","r","e" >>
      [] s = "Vendor" -> << "V","e","n","d","o","r" >>
      [] s = "Employee" -> << "E","m","p","l","o","y","e","e" >>
      [] s = "On-Site" -> << "O","n","-","S","i","t","e" >>

\* str::contains: kw occurs in s as a contiguous run of characters.
Contains(s, kw) ==
    LET h == Chars(s)
        n == Chars(kw)
    IN  \E i \in 0..(Len(h) - Len(n)) : SubSeq(h, i + 1, i + Len(n)) = n

\* Option::unwrap_or
UnwrapOr(o, d) == IF o = None THEN d ELSE o[1]

\* Faulty variant: an absent mail is written as an empty field.
get_emailEmpty(u) == UnwrapOr(u.mail, "")
get_email(u) == UnwrapOr(u.mail, "unknown")
get_department(u) == UnwrapOr(u.department, "unknown")
get_job_title(u) == UnwrapOr(u.job_title, "unknown")
get_office_location(u) == UnwrapOr(u.office_location, "unknown")

\* Faulty variant: the keyword Outsource is missing from the list.
get_categoryTwoKeywords(u) ==
    LET job_title == UnwrapOr(u.job_title, "unknown")
        office_location == UnwrapOr(u.office_location, "unknown")
        employment_type ==
            IF \E kw \in { "CONSULT", "OUTSOURCE" } : Contains(job_title, kw)
            THEN "Vendor" ELSE "Employee"
        location ==
            IF \E kw \in { "Off-Shore", "Off-Site" } :
                   Contains(office_location, kw)
            THEN "Off-Shore" ELSE "On-Site"
    IN  << employment_type, location >>

get_category(u) ==
    LET job_title == UnwrapOr(u.job_title, "unknown")
        office_location == UnwrapOr(u.office_location, "unknown")
        employment_type ==
            IF \E kw \in { "CONSULT", "OUTSOURCE", "Outsource" } :
                   Contains(job_title, kw)
            THEN "Vendor" ELSE "Employee"
        location ==
            IF \E kw \in { "Off-Shore", "Off-Site" } :
                   Contains(office_location, kw)
            THEN "Off-Shore" ELSE "On-Site"
    IN  << employment_type, location >>

\* impl Display for User: the eight fields of a row, in the order written.
Display(u) ==
    << u.id, u.display_name, get_email(u), get_job_title(u),
       get_department(u), get_office_location(u),
       get_category(u)[1], get_category(u)[2] >>

\* The lines of standard output, each as the sequence of its fields.
HeaderLine ==
    << "id", "display_name", "mail", "job_title", "department",
       "office_location", "employment_type", "location", "manager_id",
       "manager_display_name" >>
RootLine(u) == Display(u) \o << "none", "none" >>
ReporteeLine(reportee, manager) ==
    Display(reportee) \o << manager.id, manager.display_name >>

\* The text of a line: the fields in the places of the {} of the format
\* string, a comma and a space between two of them.
RECURSIVE FormatLineNoSpace(_)
\* Faulty variant: the format string has a comma only between two fields.
FormatLineNoSpace(fields) ==
    IF Len(fields) = 1 THEN Chars(fields[1])
    ELSE Chars(fields[1]) \o << "," >> \o FormatLineNoSpace(Tail(fields))
RECURSIVE FormatLine(_)
FormatLine(fields) ==
    IF Len(fields) = 1 THEN Chars(fields[1])
    ELSE Chars(fields[1]) \o << ",", " " >> \o FormatLine(Tail(fields))

\* The places where the delimiter ", " begins in a text.
DelimiterAt(cs) ==
    { i \in 1..(Len(cs) - 1) : cs[i] = "," /\ cs[i + 1] = " " }
RECURSIVE SplitLine(_)
\* The text split on ", " from the left, as a reader of the output does.
SplitLine(cs) ==
    IF DelimiterAt(cs) = { } THEN << cs >>
    ELSE LET i == CHOOSE k \in DelimiterAt(cs) : \A l \in DelimiterAt(cs) : k <= l
         IN  << SubSeq(cs, 1, i - 1) >> \o SplitLine(SubSeq(cs, i + 2, Len(cs)))

\* ------------------------------------------------- the directory service
\* A directory gives every user the pages of its direct-reports query; page k
\* carries a continuation link exactly when a page k+1 exists.  Directories
\* are trees: user i > 1 reports to one user of smaller index.
ParentMaps ==
    { p \in [2..MaxUsers -> 1..MaxUsers] : \A u \in 2..MaxUsers : p[u] < u }
PageCuts == [2..MaxUsers -> BOOLEAN]
\* << h, t >>: an empty page (with a link) before user h's page, or an empty
\* last page after manager t's pages; 0 for none.
EmptyPages ==
    { << 0, 0 >> } \cup { << h, 0 >> : h \in 2..MaxUsers }
                   \cup { << 0, t >> : t \in 1..MaxUsers }

RECURSIVE ChildrenUpTo(_, _, _)
ChildrenUpTo(p, m, u) ==
    IF u < 2 THEN << >>
    ELSE LET r == ChildrenUpTo(p, m, u - 1)
         IN  IF p[u] = m THEN Append(r, u) ELSE r

RECURSIVE Paginate(_, _, _)
Paginate(cs, cut, hole) ==
    IF cs = << >> THEN << >>
    ELSE LET u == cs[Len(cs)]
             P == Paginate(SubSeq(cs, 1, Len(cs) - 1), cut, hole)
         IN  IF hole = u THEN P \o << << >>, << User(u) >> >>
             ELSE IF P = << >> \/ cut[u] THEN Append(P, << User(u) >>)
             ELSE [P EXCEPT ![Len(P)] = Append(@, User(u))]

PagesOf(p, cut, e, m) ==
    LET P == Paginate(ChildrenUpTo(p, m, MaxUsers), cut, e[1])
        Q == IF P = << >> THEN << << >> >> ELSE P
    IN  IF e[2] = m THEN Append(Q, << >>) ELSE Q

MkDir(p, cut, e) ==
    [ id \in Ids |->
        PagesOf(p, cut, e, CHOOSE i \in 1..MaxUsers : UserIds[i] = id) ]

Directories ==
    { MkDir(p, cut, e) : p \in ParentMaps, cut \in PageCuts, e \in EmptyPages }

\* Directories that are not trees: a tree in which every user reports to the
\* first user or to the user before it, the reports of one manager on one
\* page, and one more listing, user r on a further page of manager m.  The
\* listing gives r a second manager, or closes a management cycle when r is m
\* or is above m.
GraphParentMaps == { p \in ParentMaps : \A u \in 2..MaxUsers : p[u] \in { 1, u - 1 } }
NoCut == [ u \in 2..MaxUsers |-> FALSE ]
AddListing(d, m, r) ==
    [ d EXCEPT ![UserIds[m]] =
        IF @ = << << >> >> THEN << << User(r) >> >>
        ELSE Append(@, << User(r) >>) ]
\* The listings a tree can take: manager m does not list user r yet.
NewListings(p) ==
    { mr \in (1..MaxUsers) \X (1..MaxUsers) : mr[2] = 1 \/ p[mr[2]] # mr[1] }
GraphDirectories ==
    UNION { { AddListing(MkDir(p, NoCut, << 0, 0 >>), mr[1], mr[2]) :
                mr \in NewListings(p) } :
            p \in GraphParentMaps }

\* The candidate lists the search query may return.
SearchResults == { [ i \in 1..k |-> User(i) ] : k \in 0..MaxCandidates }

\* What the user may type at the index prompt.
IndexInputs == { "abc", "-1", "0", "1", "2", "3", "4", "9" }

\* str::trim().parse::<usize>().unwrap_or(0)
ParseIndex(s) ==
    CASE s = "1" -> 1
      [] s = "2" -> 2
      [] s = "3" -> 3
      [] s = "4" -> 4
      [] s = "9" -> 9
      [] OTHER -> 0

\* ------------------------------------------------------------------ URLs
SearchUrl == [ kind |-> "users", id |-> "", page |-> 0 ]
DirectReportsUrl(id) == [ kind |-> "directReports", id |-> id, page |-> 1 ]
NoUrl == [ kind |-> "", id |-> "", page |-> 0 ]

VARIABLES
    dir,            \* the directory held by the service
    mainpc,         \* main's position
    users,          \* main: response.value of the last search
    selected_user,  \* main: Option of the selected user
    rejected,       \* number of index inputs rejected so far
    stack,          \* frames of fetch_reportee_tree_recursive, innermost last
    fetch,          \* the running fetch_users call, if any
    permits,        \* available permits of REQUEST_SEMAPHORE
    inflight,       \* calls that hold a permit and have not returned
    err,            \* the error being returned, "none" if none
    stdout,         \* lines written to standard output
    calls,          \* URLs requested from the service, in order
    fmt             \* one record on its way through the formatting of a row

vars ==
    << fmt, dir, mainpc, users, selected_user, rejected, stack, fetch, permits,
       inflight, err, stdout, calls >>

\* The service's answer to a successful call.
UsersResponse(url) ==
    IF url.kind = "users"
    THEN { [ value |-> v, next_link |-> None ] : v \in SearchResults }
    ELSE { [ value |-> dir[url.id][url.page],
             next_link |-> IF url.page < Len(dir[url.id])
                           THEN Some([url EXCEPT !.page = @ + 1])
                           ELSE None ] }

Idle == [ pc |-> "idle", url |-> NoUrl ]
\* No record is being formatted on its own.
NoFormat == [ pc |-> "none" ]
\* fetch_users is called and reaches REQUEST_SEMAPHORE.acquire().await
CallFetchUsers(url) == [ pc |-> "acquire", url |-> url ]

Top == stack[Len(stack)]
Pop == SubSeq(stack, 1, Len(stack) - 1)
\* A fresh call of fetch_reportee_tree_recursive for manager, at its first fetch.
Frame(manager) ==
    [ manager |-> manager, url |-> DirectReportsUrl(manager.id), pc |-> "fetch",
      reportees |-> << >>, next_link |-> None ]

Init ==
    /\ dir \in Directories
    /\ mainpc = "loop"
    /\ users = << >>
    /\ selected_user = None
    /\ rejected = 0
    /\ stack = << >>
    /\ fetch = Idle
    /\ permits = MAX_CONCURRENT_REQUESTS
    /\ inflight = 0
    /\ err = "none"
    /\ stdout = << >>
    /\ calls = << >>
    /\ fmt = NoFormat

\* The state after construction, over a directory that need not be a tree.
GraphInit ==
    /\ dir \in GraphDirectories
    /\ mainpc = "loop"
    /\ users = << >>
    /\ selected_user = None
    /\ rejected = 0
    /\ stack = << >>
    /\ fetch = Idle
    /\ permits = MAX_CONCURRENT_REQUESTS
    /\ inflight = 0
    /\ err = "none"
    /\ stdout = << >>
    /\ calls = << >>
    /\ fmt = NoFormat

\* ------------------------------------------------------------ fetch_users
\* Faulty variant: the permit is not bound to the call (let _ = ...), so it is back in
\* the semaphore as soon as it is granted.
AcquirePermitNotKept(p) == p
\* Semaphore::acquire takes one permit out of the semaphore.
AcquirePermit(p) == p - 1

\* Faulty variant: the permit is forgotten instead of dropped and never goes back.
DropPermitForgotten(p) == p
\* The permit is dropped when fetch_users returns: one permit goes back.
DropPermit(p) == p + 1

\* The acquire is granted (it fails only on a closed semaphore, and this one
\* is never closed), the headers are built, the pacing sleep passes and the
\* request is sent.
FetchAcquire ==
    /\ fetch.pc = "acquire"
    /\ permits > 0
    /\ Len(calls) < MaxCalls
    /\ permits' = AcquirePermit(permits)
    /\ inflight' = inflight + 1
    /\ fetch' = [fetch EXCEPT !.pc = "inflight"]
    /\ calls' = Append(calls, fetch.url)
    /\ UNCHANGED << fmt, dir, mainpc, users, selected_user, rejected, stack, err,
                    stdout >>

\* A 2xx response whose body deserializes: Ok(response) to the caller.
FetchOk ==
    /\ fetch.pc = "inflight"
    /\ \E response \in UsersResponse(fetch.url) :
          IF stack = << >>
          THEN /\ users' = response.value
               /\ mainpc' = "users"
               /\ stack' = stack
          ELSE /\ stack' = [stack EXCEPT ![Len(stack)] =
                              [@ EXCEPT !.pc = "fetched",
                                        !.reportees = response.value,
                                        !.next_link = response.next_link]]
               /\ UNCHANGED << users, mainpc >>
    /\ fetch' = Idle
    /\ permits' = DropPermit(permits)
    /\ inflight' = inflight - 1
    /\ UNCHANGED << fmt, dir, selected_user, rejected, err, stdout, calls >>

\* Faulty variant: the permit is given back by hand on the success path only.
FetchErrKeepsPermit(kind) ==
    /\ fetch.pc = "inflight"
    /\ err' = kind
    /\ fetch' = Idle
    /\ UNCHANGED << fmt, dir, mainpc, users, selected_user, rejected, stack, stdout,
                    calls, permits, inflight >>

\* Err(kind) to the caller; the permit is dropped on this path too.
FetchErr(kind) ==
    /\ fetch.pc = "inflight"
    /\ err' = kind
    /\ fetch' = Idle
    /\ permits' = DropPermit(permits)
    /\ inflight' = inflight - 1
    /\ UNCHANGED << fmt, dir, mainpc, users, selected_user, rejected, stack, stdout,
                    calls >>

\* send() fails
FetchTransportError == FetchErr("transport")
\* the status is not 2xx: bail! (or reading the body fails)
FetchRemoteError == FetchErr("remote")
\* json() fails
FetchDeserializationError == FetchErr("deserialization")

\* ---------------------------------------------- fetch_reportee_tree_recursive
\* Faulty variant: the error of the awaited call is dropped and the caller goes on.
ReturnErrSwallowed ==
    /\ err # "none"
    /\ stack # << >>
    /\ err' = "none"
    /\ stack' = Pop
    /\ UNCHANGED << fmt, dir, mainpc, users, selected_user, rejected, fetch, permits,
                    inflight, stdout, calls >>

\* Faulty variant: the rows written so far are discarded when the error is returned.
ReturnErrRollback ==
    /\ err # "none"
    /\ stack # << >>
    /\ stack' = Pop
    /\ stdout' = SubSeq(stdout, 1, 2)
    /\ UNCHANGED << fmt, dir, mainpc, users, selected_user, rejected, fetch, permits,
                    inflight, err, calls >>

\* `?`: the frame that awaited the failed call returns its error.
ReturnErr ==
    /\ err # "none"
    /\ stack # << >>
    /\ stack' = Pop
    /\ UNCHANGED << fmt, dir, mainpc, users, selected_user, rejected, fetch, permits,
                    inflight, err, stdout, calls >>

\* Faulty variant: an empty page ends the loop only when it carries no next link.
BreakEmptyFollowsLink ==
    /\ err = "none"
    /\ stack # << >>
    /\ Top.pc = "fetched"
    /\ Top.reportees = << >>
    /\ IF Top.next_link = None
       THEN stack' = Pop /\ fetch' = fetch
       ELSE /\ stack' = [stack EXCEPT ![Len(stack)] =
                           [@ EXCEPT !.pc = "fetch", !.url = Top.next_link[1]]]
            /\ fetch' = CallFetchUsers(Top.next_link[1])
    /\ UNCHANGED << fmt, dir, mainpc, users, selected_user, rejected, permits,
                    inflight, err, stdout, calls >>

\* if reportees.is_empty() { break; } and Ok(())
BreakEmpty ==
    /\ err = "none"
    /\ stack # << >>
    /\ Top.pc = "fetched"
    /\ Top.reportees = << >>
    /\ stack' = Pop
    /\ UNCHANGED << fmt, dir, mainpc, users, selected_user, rejected, fetch, permits,
                    inflight, err, stdout, calls >>

\* Faulty variant: the for loop takes the reportees of a page from the back.
ForReporteeReversed ==
    /\ err = "none"
    /\ stack # << >>
    /\ Top.pc \in { "fetched", "for" }
    /\ Top.reportees # << >>
    /\ LET reportee == Top.reportees[Len(Top.reportees)]
       IN  /\ stdout' = Append(stdout, ReporteeLine(reportee, Top.manager))
           /\ stack' =
                Append([stack EXCEPT ![Len(stack)] =
                           [@ EXCEPT !.pc = "for",
                                     !.reportees = SubSeq(@, 1, Len(@) - 1)]],
                       Frame(reportee))
           /\ fetch' = CallFetchUsers(DirectReportsUrl(reportee.id))
    /\ UNCHANGED << fmt, dir, mainpc, users, selected_user, rejected, permits,
                    inflight, err, calls >>

\* Faulty variant: the row names the root of the run as the manager.
ForReporteeUnderRoot ==
    /\ err = "none"
    /\ stack # << >>
    /\ Top.pc \in { "fetched", "for" }
    /\ Top.reportees # << >>
    /\ LET reportee == Head(Top.reportees)
       IN  /\ stdout' = Append(stdout, ReporteeLine(reportee, stack[1].manager))
           /\ stack' =
                Append([stack EXCEPT ![Len(stack)] =
                           [@ EXCEPT !.pc = "for",
                                     !.reportees = Tail(@)]],
                       Frame(reportee))
           /\ fetch' = CallFetchUsers(DirectReportsUrl(reportee.id))
    /\ UNCHANGED << fmt, dir, mainpc, users, selected_user, rejected, permits,
                    inflight, err, calls >>

\* Faulty variant: a set of visited users is kept, and a reportee whose row has been
\* written already is passed over.
ForReporteeOnce ==
    /\ err = "none"
    /\ stack # << >>
    /\ Top.pc \in { "fetched", "for" }
    /\ Top.reportees # << >>
    /\ LET reportee == Head(Top.reportees)
           rest == [stack EXCEPT ![Len(stack)] =
                      [@ EXCEPT !.pc = "for", !.reportees = Tail(@)]]
       IN  IF \E j \in 2..Len(stdout) : stdout[j][1] = reportee.id
           THEN /\ stack' = rest
                /\ UNCHANGED << stdout, fetch >>
           ELSE /\ stdout' = Append(stdout, ReporteeLine(reportee, Top.manager))
                /\ stack' = Append(rest, Frame(reportee))
                /\ fetch' = CallFetchUsers(DirectReportsUrl(reportee.id))
    /\ UNCHANGED << fmt, dir, mainpc, users, selected_user, rejected, permits,
                    inflight, err, calls >>

\* Faulty variant: the rows of a page are all written when the page arrives, and
\* the reportees are descended into afterwards.
ForReporteeRowsOfPageFirst ==
    /\ err = "none"
    /\ stack # << >>
    /\ Top.pc \in { "fetched", "for" }
    /\ Top.reportees # << >>
    /\ LET reportee == Head(Top.reportees)
       IN  /\ stdout' = IF Top.pc = "fetched"
                        THEN stdout \o [ i \in 1..Len(Top.reportees) |->
                                  ReporteeLine(Top.reportees[i], Top.manager) ]
                        ELSE stdout
           /\ stack' =
                Append([stack EXCEPT ![Len(stack)] =
                           [@ EXCEPT !.pc = "for",
                                     !.reportees = Tail(@)]],
                       Frame(reportee))
           /\ fetch' = CallFetchUsers(DirectReportsUrl(reportee.id))
    /\ UNCHANGED << fmt, dir, mainpc, users, selected_user, rejected, permits,
                    inflight, err, calls >>

\* The next reportee of the for loop: its row is printed and the recursive
\* call for it runs up to its first fetch.
ForReportee ==
    /\ err = "none"
    /\ stack # << >>
    /\ Top.pc \in { "fetched", "for" }
    /\ Top.reportees # << >>
    /\ LET reportee == Head(Top.reportees)
       IN  /\ stdout' = Append(stdout, ReporteeLine(reportee, Top.manager))
           /\ stack' =
                Append([stack EXCEPT ![Len(stack)] =
                           [@ EXCEPT !.pc = "for",
                                     !.reportees = Tail(@)]],
                       Frame(reportee))
           /\ fetch' = CallFetchUsers(DirectReportsUrl(reportee.id))
    /\ UNCHANGED << fmt, dir, mainpc, users, selected_user, rejected, permits,
                    inflight, err, calls >>

\* Faulty variant: the loop ends after the first page that has records.
NextPageNeverFetched ==
    /\ err = "none"
    /\ stack # << >>
    /\ Top.pc = "for"
    /\ Top.reportees = << >>
    /\ fetch.pc = "idle"
    /\ Top.next_link # None
    /\ stack' = Pop
    /\ UNCHANGED << fmt, dir, mainpc, users, selected_user, rejected, fetch, permits,
                    inflight, err, stdout, calls >>

\* Faulty variant: the next link is followed while reportees of the page are left.
NextPageEarly ==
    /\ err = "none"
    /\ stack # << >>
    /\ Top.pc = "for"
    /\ fetch.pc = "idle"
    /\ Top.next_link # None
    /\ stack' = [stack EXCEPT ![Len(stack)] =
                    [@ EXCEPT !.pc = "fetch", !.url = Top.next_link[1],
                              !.reportees = << >>]]
    /\ fetch' = CallFetchUsers(Top.next_link[1])
    /\ UNCHANGED << fmt, dir, mainpc, users, selected_user, rejected, permits,
                    inflight, err, stdout, calls >>

\* The for loop is over and the response carries a next link: fetch it.
NextPage ==
    /\ err = "none"
    /\ stack # << >>
    /\ Top.pc = "for"
    /\ Top.reportees = << >>
    /\ fetch.pc = "idle"
    /\ Top.next_link # None
    /\ stack' = [stack EXCEPT ![Len(stack)] =
                    [@ EXCEPT !.pc = "fetch", !.url = Top.next_link[1]]]
    /\ fetch' = CallFetchUsers(Top.next_link[1])
    /\ UNCHANGED << fmt, dir, mainpc, users, selected_user, rejected, permits,
                    inflight, err, stdout, calls >>

\* Faulty variant: with no next link the loop goes round again with the same URL.
BreakNoLinkFetchesAgain ==
    /\ err = "none"
    /\ stack # << >>
    /\ Top.pc = "for"
    /\ Top.reportees = << >>
    /\ fetch.pc = "idle"
    /\ Top.next_link = None
    /\ stack' = [stack EXCEPT ![Len(stack)] = [@ EXCEPT !.pc = "fetch"]]
    /\ fetch' = CallFetchUsers(Top.url)
    /\ UNCHANGED << fmt, dir, mainpc, users, selected_user, rejected, permits,
                    inflight, err, stdout, calls >>

\* The for loop is over and there is no next link: break and Ok(()).
BreakNoLink ==
    /\ err = "none"
    /\ stack # << >>
    /\ Top.pc = "for"
    /\ Top.reportees = << >>
    /\ fetch.pc = "idle"
    /\ Top.next_link = None
    /\ stack' = Pop
    /\ UNCHANGED << fmt, dir, mainpc, users, selected_user, rejected, fetch, permits,
                    inflight, err, stdout, calls >>

\* ------------------------------------------------------------------- main
\* The head of the selector loop: the search query is fetched.
MainSearch ==
    /\ mainpc = "loop"
    /\ mainpc' = "search"
    /\ fetch' = CallFetchUsers(SearchUrl)
    /\ UNCHANGED << fmt, dir, users, selected_user, rejected, stack, permits,
                    inflight, err, stdout, calls >>

\* Faulty variant: the CSV header is written before the emptiness test.
MainNoUsersAfterHeader ==
    /\ mainpc = "users"
    /\ users = << >>
    /\ mainpc' = "ok"
    /\ stdout' = Append(stdout, HeaderLine)
    /\ UNCHANGED << fmt, dir, users, selected_user, rejected, stack, fetch, permits,
                    inflight, err, calls >>

\* users.is_empty(): the message on stderr and return Ok(())
MainNoUsers ==
    /\ mainpc = "users"
    /\ users = << >>
    /\ mainpc' = "ok"
    /\ UNCHANGED << fmt, dir, users, selected_user, rejected, stack, fetch, permits,
                    inflight, err, stdout, calls >>

\* Faulty variant: the search is made once, before the loop, and a rejected index
\* leads straight back to the listing and the prompt.
MainSelectKeepsList ==
    /\ mainpc = "users"
    /\ users # << >>
    /\ \E input \in IndexInputs :
          LET selected_index == ParseIndex(input)
          IN  IF selected_index > 0 /\ selected_index <= Len(users)
              THEN /\ selected_user' = Some(users[selected_index])
                   /\ mainpc' = "selected"
                   /\ rejected' = rejected
                   /\ users' = << >>
              ELSE /\ rejected < MaxRejected
                   /\ rejected' = rejected + 1
                   /\ mainpc' = "users"
                   /\ selected_user' = selected_user
                   /\ users' = users
    /\ UNCHANGED << fmt, dir, stack, fetch, permits, inflight, err, stdout, calls >>

\* The candidates are listed on stderr and an index is read: a valid index
\* breaks out of the loop with a clone of the user, any other input starts the
\* loop again; either way the loop body's users go out of scope.
MainSelect ==
    /\ mainpc = "users"
    /\ users # << >>
    /\ \E input \in IndexInputs :
          LET selected_index == ParseIndex(input)
          IN  IF selected_index > 0 /\ selected_index <= Len(users)
              THEN /\ selected_user' = Some(users[selected_index])
                   /\ mainpc' = "selected"
                   /\ rejected' = rejected
              ELSE /\ rejected < MaxRejected
                   /\ rejected' = rejected + 1
                   /\ mainpc' = "loop"
                   /\ selected_user' = selected_user
    /\ users' = << >>
    /\ UNCHANGED << fmt, dir, stack, fetch, permits, inflight, err, stdout, calls >>

\* Faulty variant: the header goes to standard error like the other messages.
MainHeaderOnStderr ==
    /\ mainpc = "selected"
    /\ mainpc' = "header"
    /\ UNCHANGED << fmt, dir, users, selected_user, rejected, stack, fetch, permits,
                    inflight, err, stdout, calls >>

\* println! of the header
MainHeader ==
    /\ mainpc = "selected"
    /\ stdout' = Append(stdout, HeaderLine)
    /\ mainpc' = "header"
    /\ UNCHANGED << fmt, dir, users, selected_user, rejected, stack, fetch, permits,
                    inflight, err, calls >>

\* println! of the root row, then the traversal is called for the root and
\* runs up to its first fetch.
MainRoot ==
    /\ mainpc = "header"
    /\ stdout' = Append(stdout, RootLine(selected_user[1]))
    /\ stack' = << Frame(selected_user[1]) >>
    /\ fetch' = CallFetchUsers(DirectReportsUrl(selected_user[1].id))
    /\ mainpc' = "traverse"
    /\ UNCHANGED << fmt, dir, users, selected_user, rejected, permits, inflight, err,
                    calls >>

\* The traversal returned Ok(()): main returns Ok(()).
MainOk ==
    /\ mainpc = "traverse"
    /\ stack = << >>
    /\ err = "none"
    /\ mainpc' = "ok"
    /\ UNCHANGED << fmt, dir, users, selected_user, rejected, stack, fetch, permits,
                    inflight, err, stdout, calls >>

\* `?` in main: the error of the search or of the traversal is main's result.
MainErr ==
    /\ mainpc \in { "search", "traverse" }
    /\ stack = << >>
    /\ err # "none"
    /\ mainpc' = "failed"
    /\ UNCHANGED << fmt, dir, users, selected_user, rejected, stack, fetch, permits,
                    inflight, err, stdout, calls >>

Next ==
    \/ MainSearch
    \/ MainNoUsers
    \/ MainSelect
    \/ MainHeader
    \/ MainRoot
    \/ MainOk
    \/ MainErr
    \/ FetchAcquire
    \/ FetchOk
    \/ FetchTransportError
    \/ FetchRemoteError
    \/ FetchDeserializationError
    \/ ReturnErr
    \/ BreakEmpty
    \/ ForReportee
    \/ NextPage
    \/ BreakNoLink

Spec == Init /\ [][Next]_vars

\* The runtime polls a task whose acquire can be granted.
FairSpec == Spec /\ WF_vars(FetchAcquire)

\* A call that was sent comes back, with a response or with an error.
FetchReturns ==
    FetchOk \/ FetchTransportError \/ FetchRemoteError \/ FetchDeserializationError
\* The steps the task takes on its own between two awaits.
TaskStep ==
    \/ MainHeader \/ MainRoot \/ MainOk \/ MainErr
    \/ ReturnErr \/ BreakEmpty \/ ForReportee \/ NextPage \/ BreakNoLink
\* The runtime keeps polling the task and the service answers every call.
LiveSpec ==
    Spec /\ WF_vars(FetchAcquire) /\ WF_vars(FetchReturns) /\ WF_vars(TaskStep)

\* The program over directories that need not be trees.
GraphSpec == GraphInit /\ [][Next]_vars

\* ------------------------------------------------- the formatting of a row
\* The records a row is formatted from: every optional field absent or
\* present, titles and offices with and without the keywords, in other case
\* and in part, and a display name with the delimiter in it.
FormatJobTitles ==
    { None } \cup
    { Some(t) : t \in { "Staff Engineer", "Senior OUTSOURCE Engineer",
                        "CONSULTANT", "Outsourced QA", "Consultant",
                        "outsource lead", "unknown" } }
FormatOffices ==
    { None } \cup
    { Some(o) : o \in { "Building 12", "Off-Shore Hub 3", "Off-Site",
                        "off-shore annex", "Offshore" } }
FormatUsers ==
    { [ id |-> "u1", display_name |-> n, mail |-> m, job_title |-> j,
        department |-> d, office_location |-> o ] :
        n \in { "Ann", "Doe, Jane" }, m \in { None, Some("ann@x") },
        j \in FormatJobTitles, d \in { None, Some("R&D") },
        o \in FormatOffices }
\* The manager of the row: none for the root row.
FormatManagers == { None, Some(User(2)) }

FormatInit ==
    /\ fmt \in { [ pc |-> "record", user |-> u, manager |-> m,
                    row |-> << >>, line |-> << >>, fields |-> << >> ] :
                  u \in FormatUsers, m \in FormatManagers }
    /\ dir = [ id \in Ids |-> << << >> >> ]
    /\ mainpc = "loop"
    /\ users = << >>
    /\ selected_user = None
    /\ rejected = 0
    /\ stack = << >>
    /\ fetch = Idle
    /\ permits = MAX_CONCURRENT_REQUESTS
    /\ inflight = 0
    /\ err = "none"
    /\ stdout = << >>
    /\ calls = << >>

\* println! of the row of the record: the root row or a reportee's row.
WriteRow ==
    /\ fmt.pc = "record"
    /\ LET row == IF fmt.manager = None THEN RootLine(fmt.user)
                  ELSE ReporteeLine(fmt.user, fmt.manager[1])
       IN  fmt' = [fmt EXCEPT !.pc = "written", !.row = row,
                              !.line = FormatLine(row)]
    /\ UNCHANGED << dir, mainpc, users, selected_user, rejected, stack, fetch,
                    permits, inflight, err, stdout, calls >>

\* A reader of the output splits the line on ", ".
SplitRow ==
    /\ fmt.pc = "written"
    /\ fmt' = [fmt EXCEPT !.pc = "split", !.fields = SplitLine(fmt.line)]
    /\ UNCHANGED << dir, mainpc, users, selected_user, rejected, stack, fetch,
                    permits, inflight, err, stdout, calls >>

FormatNext == WriteRow \/ SplitRow

FormatSpec == FormatInit /\ [][FormatNext]_vars

\* ------------------------------------------------------- reference notions
IsPrefixOf(s, t) == Len(s) <= Len(t) /\ s = SubSeq(t, 1, Len(s))

RECURSIVE Flatten(_)
Flatten(pages) ==
    IF pages = << >> THEN << >> ELSE Head(pages) \o Flatten(Tail(pages))

UserOf(id) == User(CHOOSE i \in 1..MaxUsers : UserIds[i] = id)

\* The row of every user under every manager, and of every user as root.
AllUsers == { User(i) : i \in 1..MaxUsers }
RowOf == [ r \in AllUsers, m \in AllUsers |-> ReporteeLine(r, m) ]
RootRowOf == [ r \in AllUsers |-> RootLine(r) ]

\* The first page of a query that is empty or carries no link.
StopPage(pages) ==
    CHOOSE k \in 1..Len(pages) :
        /\ pages[k] = << >> \/ k = Len(pages)
        /\ \A j \in 1..(k - 1) : pages[j] # << >>

\* Every page before the last (every page with a link) has a record.
LinkedPagesNonEmpty(pages) == \A k \in 1..(Len(pages) - 1) : pages[k] # << >>

\* The users the directory lists under a manager, over all pages of the query.
Listed(id) == Flatten(dir[id])
\* The users on the pages up to the manager's stop page.
Returned(id) == Flatten(SubSeq(dir[id], 1, StopPage(dir[id])))
Reportees(id, all) == IF all THEN Listed(id) ELSE Returned(id)

\* The rows below a manager in preorder: each reportee, then its subtree.
RECURSIVE RowsBelow(_, _)
RECURSIVE RowsOfReportees(_, _, _)
RowsOfReportees(rs, manager, all) ==
    IF rs = << >> THEN << >>
    ELSE << RowOf[Head(rs), manager] >>
            \o RowsBelow(Head(rs), all)
            \o RowsOfReportees(Tail(rs), manager, all)
RowsBelow(manager, all) ==
    RowsOfReportees(Reportees(manager.id, all), manager, all)

\* The whole output of a run that selects root and meets no error.
ErrorFreeOutput(root, all) ==
    << HeaderLine, RootRowOf[root] >> \o RowsBelow(root, all)

\* The direct-reports calls made for a manager, in order.
CallsFor(id) ==
    SelectSeq(calls, LAMBDA u : u.kind = "directReports" /\ u.id = id)
\* The rows written with a manager's id in the manager_id column.
RowsUnder(id) == SelectSeq(stdout, LAMBDA l : l[9] = id)
\* The rows of a sequence of reportees of one manager.
LinesOf(rs, id) == [ i \in 1..Len(rs) |-> RowOf[rs[i], UserOf(id)] ]

Completed == mainpc = "ok" /\ selected_user # None

\* ---------------------------------------------------------------- claims
\* C1 as stated: when a run that selected a root ends without error, the
\* output is the header, the root row and the preorder of the tree of all
\* users the directory lists under the root.
C1_PreorderOfListedTree ==
    Completed => stdout = ErrorFreeOutput(selected_user[1], TRUE)

\* C1 amended: when a run that selected a root ends without error, the output
\* is the header, the root row and the preorder of the tree of the users
\* returned up to each manager's stop page: every manager's reportees in page
\* order then in-page order, each followed at once by its whole subtree.
C1_PreorderOfReturnedTree ==
    Completed => stdout = ErrorFreeOutput(selected_user[1], FALSE)

\* A completed run over root -> {A, B}, A -> {C} with everything returned.
C1_Witness ==
    /\ Completed
    /\ Len(Returned(selected_user[1].id)) >= 2
    /\ Returned(Returned(selected_user[1].id)[1].id) # << >>
    /\ Len(stdout) >= 5

\* C2: once a fetch has failed, every step returns the error from one more
\* enclosing call or makes it main's result, and no step writes a row, issues
\* or starts a fetch, or changes the error; main fails only with the error.
C2_ErrorAbortsTraversal ==
    /\ [][err # "none" =>
            /\ stdout' = stdout
            /\ calls' = calls
            /\ err' = err
            /\ fetch' = Idle
            /\ \/ Len(stack') = Len(stack) - 1 /\ mainpc' = mainpc
               \/ stack = << >> /\ stack' = << >> /\ mainpc' = "failed"]_vars
    /\ [](mainpc = "failed" => err # "none" /\ stack = << >>)

\* A direct-reports fetch below the root failed with siblings still unvisited,
\* and main has returned the error.
C2_Witness ==
    /\ mainpc = "failed"
    /\ calls[Len(calls)].kind = "directReports"
    /\ calls[Len(calls)].id # selected_user[1].id
    /\ Len(stdout) < Len(ErrorFreeOutput(selected_user[1], FALSE)) - 1

\* C3: no step removes or changes a line already written, and after an abort
\* the output is the header, the root row and the rows written so far, a
\* prefix of the error-free output for the same directory and root.
C3_OutputKeptOnAbort ==
    /\ [][IsPrefixOf(stdout, stdout')]_vars
    /\ []((err # "none" /\ selected_user # None) =>
            /\ Len(stdout) >= 2
            /\ IsPrefixOf(stdout, ErrorFreeOutput(selected_user[1], FALSE)))

\* An abort after descendant rows were written, with rows still missing.
C3_Witness ==
    /\ mainpc = "failed"
    /\ Len(stdout) >= 4
    /\ Len(stdout) < Len(ErrorFreeOutput(selected_user[1], FALSE))

\* C4: the calls in flight are exactly the holders of the permits taken out of
\* the semaphore, whose count of available permits never leaves 0..10: at
\* most MAX_CONCURRENT_REQUESTS calls are in flight, the search call and the
\* direct-reports calls of every recursion level counted alike.
C4_InFlightAtMostCapacity ==
    /\ permits \in 0..MAX_CONCURRENT_REQUESTS
    /\ inflight = MAX_CONCURRENT_REQUESTS - permits
    /\ inflight <= MAX_CONCURRENT_REQUESTS

\* A direct-reports call of the third recursion level is in flight.
C4_Witness ==
    /\ inflight = 1
    /\ fetch.pc = "inflight"
    /\ fetch.url.kind = "directReports"
    /\ Len(stack) >= 3

\* C5: a call that waits for a permit holds none and no other call does, so
\* the acquire can be granted; when no fetch_users call runs (the caller
\* tests the page, emits rows, recurses or returns) every permit is back; and
\* every acquire is granted in the end.
C5_NoSlotHeldWhileWaiting ==
    /\ [](fetch.pc = "acquire" =>
            inflight = 0 /\ permits = MAX_CONCURRENT_REQUESTS)
    /\ [](fetch.pc = "idle" =>
            inflight = 0 /\ permits = MAX_CONCURRENT_REQUESTS)
    /\ (fetch.pc = "acquire") ~> (fetch.pc = "inflight")

\* A call of the third recursion level waits for a permit after earlier calls
\* have returned theirs.
C5_Witness ==
    /\ fetch.pc = "acquire"
    /\ Len(stack) >= 3
    /\ Len(calls) >= 3

\* The calls made for a manager are pages 1..n of its query, in turn.
PagesInTurn(id, n) ==
    /\ Len(CallsFor(id)) = n
    /\ \A k \in 1..n :
          CallsFor(id)[k] = [DirectReportsUrl(id) EXCEPT !.page = k]

\* C6 as stated: in a run that ends without error, every manager whose query
\* was made is fetched on each of its N pages in turn and has as its rows the
\* records of all N pages in page order.
C6_EveryPageFetched ==
    Completed =>
        \A id \in Ids :
            CallsFor(id) # << >> =>
                /\ PagesInTurn(id, Len(dir[id]))
                /\ RowsUnder(id) = LinesOf(Listed(id), id)

\* C6 amended: the same for every manager whose first N-1 pages each hold at
\* least one record.
C6_EveryPageFetchedIfNonEmpty ==
    Completed =>
        \A id \in Ids :
            (CallsFor(id) # << >> /\ LinkedPagesNonEmpty(dir[id])) =>
                /\ PagesInTurn(id, Len(dir[id]))
                /\ RowsUnder(id) = LinesOf(Listed(id), id)

\* A completed run with a manager of two or more pages that all hold records.
C6_Witness ==
    /\ Completed
    /\ \E id \in Ids :
          /\ CallsFor(id) # << >>
          /\ Len(dir[id]) >= 2
          /\ \A k \in 1..Len(dir[id]) : dir[id][k] # << >>

\* C7: the calls made for a manager are the pages 1, 2, .. of its query in
\* turn and never go past its stop page (the first page that is empty or has
\* no link); a manager's loop that has ended without error ended exactly
\* there; a manager whose first page is empty is fetched once and has no row;
\* and a page received, empty or not, leaves no error.
C7_CursorStopsAtStopPage ==
    /\ \A id \in Ids :
          LET n == Len(CallsFor(id))
          IN  /\ PagesInTurn(id, n)
              /\ n <= StopPage(dir[id])
              /\ (Completed /\ n > 0) => n = StopPage(dir[id])
              /\ dir[id][1] = << >> => n <= 1 /\ RowsUnder(id) = << >>
    /\ (stack # << >> /\ Top.pc = "fetched") => err = "none"

\* A completed run in which one manager was fetched once, its first page
\* being empty, and another manager's loop ended at an empty page that
\* carried a link, after a page with records.
C7_Witness ==
    /\ Completed
    /\ \E id \in Ids :
          /\ Len(CallsFor(id)) = 1
          /\ dir[id][1] = << >>
    /\ \E id \in Ids :
          /\ Len(CallsFor(id)) >= 2
          /\ dir[id][Len(CallsFor(id))] = << >>
          /\ Len(CallsFor(id)) < Len(dir[id])

C9_RowsNameTheirManager ==
    /\ \A i \in 3..Len(stdout) :
          \E m \in AllUsers :
              /\ stdout[i][9] = m.id
              /\ stdout[i][10] = m.display_name
              /\ \E k \in 1..Len(CallsFor(m.id)) :
                    \E j \in 1..Len(dir[m.id][k]) :
                        stdout[i] = RowOf[dir[m.id][k][j], m]
    /\ \A i \in 1..Len(stdout) :
          (stdout[i][9] = "none" /\ stdout[i][10] = "none") <=> i = 2

\* A row written at the third recursion level, under a manager that is
\* neither the root nor the only user of its display name.
C9_Witness ==
    /\ Len(stack) >= 3
    /\ Len(stdout) >= 4
    /\ stdout[Len(stdout)][9] # selected_user[1].id
    /\ \E m \in AllUsers :
          /\ m.id # stdout[Len(stdout)][9]
          /\ m.display_name = stdout[Len(stdout)][10]

\* The ids of the users the directory lists below a user, at any depth.
RECURSIVE DescendantIds(_)
DescendantIds(id) ==
    LET direct == { Listed(id)[i].id : i \in 1..Len(Listed(id)) }
    IN  direct \cup UNION { DescendantIds(r) : r \in direct }

\* C10: once a root is selected and the traversal is called, the output
\* starts with the header of 10 columns and the root's row ending in none,
\* none; no direct-reports call is requested or waiting before both are
\* written; and every later line is the row of a user below the root.
C10_HeaderThenRootFirst ==
    /\ Len(HeaderLine) = 10
    /\ Len(stdout) >= 1 => stdout[1] = HeaderLine
    /\ Len(stdout) >= 2 =>
          /\ selected_user # None
          /\ stdout[2] = RootRowOf[selected_user[1]]
          /\ SubSeq(stdout[2], 9, 10) = << "none", "none" >>
    /\ ( \/ mainpc \in { "traverse", "failed" } /\ selected_user # None
         \/ Completed
         \/ fetch.url.kind = "directReports"
         \/ \E k \in 1..Len(calls) : calls[k].kind = "directReports" )
          => Len(stdout) >= 2
    /\ Len(stdout) >= 3 =>
          LET below == DescendantIds(selected_user[1].id)
          IN  \A i \in 3..Len(stdout) :
                  /\ stdout[i] # HeaderLine
                  /\ stdout[i][9] # "none"
                  /\ stdout[i][1] \in below

\* The first direct-reports call waits for its permit with exactly the header
\* and the root row written.
C10_Witness ==
    /\ selected_user # None
    /\ fetch = CallFetchUsers(DirectReportsUrl(selected_user[1].id))
    /\ \A k \in 1..Len(calls) : calls[k].kind = "users"
    /\ Len(stdout) = 2

\* ------------------------------------------------------------------------
\* The selector loop (main.rs:39-72).
SearchCalls == SelectSeq(calls, LAMBDA u : u.kind = "users")
DirectReportsCalls == SelectSeq(calls, LAMBDA u : u.kind = "directReports")
\* The run has ended without a user having been selected.
EndedUnselected == mainpc \in { "ok", "failed" } /\ selected_user = None

\* C11: an index that is non-numeric, zero, negative or greater than the number
\* of candidates is rejected and the user is prompted again, such input never
\* being fatal to the run: the answer to an index prompt either selects the
\* i-th listed candidate (1 <= i <= number listed) or leaves the run without an
\* error, a run in which an index was rejected does not end before a user is
\* selected, and the traversal starts only from a selected user.
C11_RejectedIndexPromptsAgain ==
    /\ [][ (mainpc = "users" /\ users # << >>)
            => \/ /\ mainpc' = "selected"
                  /\ \E i \in 1..Len(users) : selected_user' = Some(users[i])
               \/ /\ mainpc' \in { "loop", "users" }
                  /\ selected_user' = None
                  /\ err' = "none" ]_vars
    /\ []( mainpc \in { "selected", "header", "traverse" } => selected_user # None )
    /\ []( stack # << >> => stack[1].manager = selected_user[1] )
    /\ []( rejected > 0 => ~ EndedUnselected )

\* C12: when the search returns zero users the run ends successfully at once:
\* no index is asked for, nothing has been written to standard output and no
\* direct-reports call has been made.
C12_NoUsersEndsQuietly ==
    /\ (mainpc = "users" /\ users = << >>) => ~ ENABLED MainSelect
    /\ (mainpc = "ok" /\ selected_user = None)
       => /\ stdout = << >>
          /\ DirectReportsCalls = << >>
          /\ err = "none"
          /\ stack = << >>
          /\ fetch = Idle
          /\ Len(SearchCalls) = rejected + 1
C12_Witness ==
    mainpc = "ok" /\ selected_user = None /\ rejected = 0 /\ Len(calls) = 1

\* ------------------------------------------------------------------------
\* Permits held by calls of fetch_users.
HeldPermits == MAX_CONCURRENT_REQUESTS - permits

\* C19: the traversal being sequential, the number of held permits is 0 or 1 in
\* every reachable state, and 0 whenever no call of fetch_users is between its
\* acquire and its return (so the permit has gone back after a success and after
\* every error); a call that reaches the acquire finds a free permit, and the
\* capacity of 10 held permits is never reached.
C19_AtMostOnePermitHeld ==
    /\ HeldPermits \in { 0, 1 }
    /\ inflight = HeldPermits
    /\ fetch.pc # "inflight" => HeldPermits = 0
    /\ fetch.pc = "inflight" => HeldPermits = 1
    /\ fetch.pc = "acquire" => permits > 0 /\ ENABLED FetchAcquire
    /\ HeldPermits < MAX_CONCURRENT_REQUESTS
\* Calls have returned both ways, the last one with an error from below the
\* root, and no permit is held.
C19_Witness ==
    /\ err = "deserialization"
    /\ Len(stack) >= 2
    /\ Len(calls) >= 3
    /\ fetch = Idle
    /\ HeldPermits = 0

\* ------------------------------------------------------------------------
\* Index prompts answered so far: the rejected answers and the accepted one.
IndexPrompts == rejected + (IF selected_user # None THEN 1 ELSE 0)

\* C20: the search is issued once per index prompt: a rejected index leads back
\* to the head of the loop, where the candidate list is fetched again before it
\* is listed and the index asked for; the number of search fetches equals the
\* number of index prompts, plus one for a fetch that has not been followed by
\* its prompt (yet, or ever: it returned no users or failed), and an error or an
\* empty result of a repeated search ends the run there.
C20_SearchPerPrompt ==
    /\ mainpc = "loop"
       => /\ Len(SearchCalls) = IndexPrompts
          /\ users = << >>
          /\ ENABLED MainSearch
          /\ ~ ENABLED MainSelect
    /\ mainpc = "search" => Len(SearchCalls) \in { IndexPrompts, IndexPrompts + 1 }
    /\ mainpc = "users" => Len(SearchCalls) = IndexPrompts + 1
    /\ selected_user # None => Len(SearchCalls) = IndexPrompts
    /\ EndedUnselected
       => /\ Len(SearchCalls) = IndexPrompts + 1
          /\ ~ ENABLED Next
    /\ (mainpc = "search" /\ err # "none") => ENABLED MainErr /\ ~ ENABLED MainSearch
\* The search made after a rejected index fails, which ends the run.
C20_Witness ==
    /\ mainpc = "failed"
    /\ selected_user = None
    /\ rejected = 1
    /\ Len(SearchCalls) = 2
    /\ stdout = << >>

\* ------------------------------------------------------------------------
\* The positions of the rows of a user in the output (the header is line 1).
RowsOfUser(id) == { j \in 2..Len(stdout) : stdout[j][1] = id }
\* A call of fetch_reportee_tree_recursive for the user has not returned.
InProgress(id) == \E k \in 1..Len(stack) : stack[k].manager.id = id
\* A direct-reports call for the user has been asked for or made.
FetchStarted(id) ==
    \/ CallsFor(id) # << >>
    \/ fetch.pc # "idle" /\ fetch.url.kind = "directReports" /\ fetch.url.id = id

\* C18: the output is streamed.  The row of a user is written before any
\* direct-reports call is made for it; when the row of the next sibling is
\* written, the call for the user has returned, its cursor run to the stop
\* page and the rows of the reportees returned to it written in between; and
\* no row is held back: while a page of a manager is worked through, the rows
\* under the manager and the reportees still to come are together the
\* records of the pages fetched.
C18_RowsStreamed ==
    /\ \A id \in Ids : FetchStarted(id) => RowsOfUser(id) # { }
    /\ \A j \in 3..Len(stdout) : \A k \in (j + 1)..Len(stdout) :
          stdout[k][9] = stdout[j][9]
             => LET id == stdout[j][1]
                IN  /\ ~ InProgress(id)
                    /\ Len(CallsFor(id)) = StopPage(dir[id])
                    /\ \A i \in 1..Len(Returned(id)) :
                          \E l \in (j + 1)..(k - 1) :
                              stdout[l] = RowOf[Returned(id)[i], UserOf(id)]
    /\ \A f \in 1..Len(stack) :
          LET id == stack[f].manager.id
              got == Flatten(SubSeq(dir[id], 1, Len(CallsFor(id))))
          IN  stack[f].pc \in { "fetched", "for" }
                 => RowsUnder(id) \o LinesOf(stack[f].reportees, id)
                       = LinesOf(got, id)
\* The row of a second sibling has been written and its fetch not yet made,
\* after the recursion into the first sibling, which has reportees, returned.
C18_Witness ==
    /\ fetch.pc = "acquire"
    /\ Len(stdout) >= 5
    /\ stdout[Len(stdout)][1] = fetch.url.id
    /\ CallsFor(fetch.url.id) = << >>
    /\ \E j \in 3..(Len(stdout) - 2) :
          /\ stdout[j][9] = stdout[Len(stdout)][9]
          /\ Returned(stdout[j][1]) # << >>

\* ------------------------------------------------------------------------
\* C13: once started, the traversal of a finite tree-shaped directory always
\* ends: while it runs some step can be taken, and it leads to main returning,
\* Ok with every call of the recursion returned and no error, or Err with the
\* error of a fetch; there is no other end.
C13_TraversalEnds ==
    /\ [](mainpc = "traverse" => ENABLED Next)
    /\ (mainpc = "traverse") ~> (mainpc \in { "ok", "failed" })
    /\ [](Completed => err = "none" /\ stack = << >> /\ fetch = Idle)
    /\ [](mainpc = "failed" => err # "none" /\ stack = << >> /\ fetch = Idle)
\* A traversal of all the users has ended without error, a manager's cursor
\* having gone over more than one page.
C13_Witness ==
    /\ Completed
    /\ Len(stdout) = MaxUsers + 1
    /\ Len(DirectReportsCalls) > MaxUsers

\* ------------------------------------------------------------------------
\* Directories that need not be trees.
ChildIdsIn(d, id) == { u.id : u \in { Flatten(d[id])[i] : i \in 1..Len(Flatten(d[id])) } }
RECURSIVE ReachIn(_, _, _)
\* The users reached from a set of users along at most n listings.
ReachIn(d, S, n) ==
    IF n = 0 THEN S
    ELSE ReachIn(d, S \cup UNION { ChildIdsIn(d, id) : id \in S }, n - 1)
\* The users from which a management cycle is reached.
CycleBelow ==
    [ d \in GraphDirectories |->
        { root \in Ids :
            \E id \in ReachIn(d, { root }, MaxUsers) :
                id \in ReachIn(d, ChildIdsIn(d, id), MaxUsers) } ]
\* The calls that began a traversal of the user's reports.
FirstPageCalls(id) == SelectSeq(calls, LAMBDA u : u = DirectReportsUrl(id))
\* The rows of user r written under manager m.
RowsOfUnder(r, m) ==
    { j \in 3..Len(stdout) : stdout[j][1] = r /\ stdout[j][9] = m }

\* C14: there is no visited set.  Every row of a user, whoever listed it, is
\* followed by a traversal of that user's reports; a user is written once for
\* every time a manager that lists it is traversed, each row naming that
\* manager; and from a root below which there is a management cycle the run
\* never completes.
C14_NoDeduplication ==
    /\ \A id \in Ids :
          Cardinality(RowsOfUser(id)) =
             Len(FirstPageCalls(id))
                + (IF fetch.pc = "acquire" /\ fetch.url = DirectReportsUrl(id)
                   THEN 1 ELSE 0)
    /\ \A j \in 3..Len(stdout) :
          /\ stdout[j][1] \in ChildIdsIn(dir, stdout[j][9])
          /\ stdout[j] = RowOf[UserOf(stdout[j][1]), UserOf(stdout[j][9])]
    /\ \A m \in Ids : \A r \in ChildIdsIn(dir, m) :
          /\ Cardinality(RowsOfUnder(r, m)) <= Len(FirstPageCalls(m))
          /\ (err = "none" /\ ~ InProgress(m))
                => Cardinality(RowsOfUnder(r, m)) = Len(FirstPageCalls(m))
    /\ (selected_user # None /\ selected_user[1].id \in CycleBelow[dir])
          => mainpc # "ok"
\* On a management cycle a user is being traversed inside its own traversal
\* for the third time.
C14_Witness ==
    /\ selected_user # None
    /\ selected_user[1].id \in CycleBelow[dir]
    /\ \E id \in Ids :
          /\ Cardinality({ k \in 1..Len(stack) : stack[k].manager.id = id }) >= 3
          /\ Cardinality(RowsOfUser(id)) >= 3
\* A run has completed in which a user listed by two managers was written
\* under each of them, and so was its reportee, twice.
C14_SharedReportWritten ==
    /\ Completed
    /\ \E r \in Ids : \E m1 \in Ids : \E m2 \in Ids \ { m1 } :
          /\ RowsOfUnder(r, m1) # { }
          /\ RowsOfUnder(r, m2) # { }
          /\ \E c \in ChildIdsIn(dir, r) : Cardinality(RowsOfUnder(c, r)) = 2

\* ------------------------------------------------------------------------
\* C15: an absent mail, job title, department or office location is written
\* as unknown; a record without a job title is an Employee and a record
\* without an office location is On-Site.
C15_AbsentFieldsUnknown ==
    fmt.pc \in { "written", "split" } =>
        /\ fmt.user.mail = None => fmt.row[3] = "unknown"
        /\ fmt.user.job_title = None
              => fmt.row[4] = "unknown" /\ fmt.row[7] = "Employee"
        /\ fmt.user.department = None => fmt.row[5] = "unknown"
        /\ fmt.user.office_location = None
              => fmt.row[6] = "unknown" /\ fmt.row[8] = "On-Site"
        /\ \A k \in { 3, 4, 5, 6 } : fmt.row[k] # ""
\* The row of a record with none of the optional fields has been written.
C15_Witness ==
    /\ fmt.pc = "written"
    /\ fmt.user.mail = None
    /\ fmt.user.job_title = None
    /\ fmt.user.department = None
    /\ fmt.user.office_location = None
    /\ fmt.row[7] = "Employee"

\* The titles of FormatJobTitles in which CONSULT, OUTSOURCE or Outsource
\* occurs, and the offices of FormatOffices in which Off-Shore or Off-Site
\* occurs, letter for letter.
VendorTitles == { "Senior OUTSOURCE Engineer", "CONSULTANT", "Outsourced QA" }
OffShoreOffices == { "Off-Shore Hub 3", "Off-Site" }

\* C16: the employment type is Vendor exactly when the job title contains
\* CONSULT, OUTSOURCE or Outsource in that very case, and Employee otherwise;
\* the location is Off-Shore exactly when the office location contains
\* Off-Shore or Off-Site, and On-Site otherwise; each is decided by its own
\* field alone, whatever the other fields of the record are.
C16_CategoriesByKeyword ==
    fmt.pc \in { "written", "split" } =>
        /\ fmt.row[7] \in { "Vendor", "Employee" }
        /\ fmt.row[8] \in { "Off-Shore", "On-Site" }
        /\ fmt.row[7] = "Vendor"
              <=> (fmt.user.job_title # None
                     /\ fmt.user.job_title[1] \in VendorTitles)
        /\ fmt.row[8] = "Off-Shore"
              <=> (fmt.user.office_location # None
                     /\ fmt.user.office_location[1] \in OffShoreOffices)
\* A Vendor on site whose title has a keyword, the office location having one
\* in lower case only.
C16_Witness ==
    /\ fmt.pc = "written"
    /\ fmt.user.job_title = Some("Outsourced QA")
    /\ fmt.user.office_location = Some("off-shore annex")
    /\ fmt.row[7] = "Vendor"
    /\ fmt.row[8] = "On-Site"

\* No field of the row has the delimiter in it.
NoDelimiter(row) == \A k \in 1..Len(row) : DelimiterAt(Chars(row[k])) = { }
\* The values of the eight fields of a record, in the order of the header.
FieldValues(u) ==
    << u.id, u.display_name,
       IF u.mail = None THEN "unknown" ELSE u.mail[1],
       IF u.job_title = None THEN "unknown" ELSE u.job_title[1],
       IF u.department = None THEN "unknown" ELSE u.department[1],
       IF u.office_location = None THEN "unknown" ELSE u.office_location[1],
       IF u.job_title # None /\ u.job_title[1] \in VendorTitles
       THEN "Vendor" ELSE "Employee",
       IF u.office_location # None /\ u.office_location[1] \in OffShoreOffices
       THEN "Off-Shore" ELSE "On-Site" >>
TextOf(values) == [ k \in 1..Len(values) |-> Chars(values[k]) ]

\* C17 as stated: the line of a record without the delimiter in its fields,
\* split on ", ", gives the field values back in the fixed order: 8 fields
\* for the root row, and 10, the 8 and the manager's id and display name, for
\* any other row.
C17_RootRowOfEightFields ==
    (fmt.pc = "split" /\ NoDelimiter(fmt.row)) =>
        IF fmt.manager = None
        THEN fmt.fields = TextOf(FieldValues(fmt.user))
        ELSE fmt.fields =
                TextOf(FieldValues(fmt.user)
                          \o << fmt.manager[1].id,
                                fmt.manager[1].display_name >>)

\* C17 amended: every row splits into 10 fields, the 8 of the record and then
\* the manager's id and display name, which are none and none in the root
\* row.
C17_TenFieldsRoundTrip ==
    (fmt.pc = "split" /\ NoDelimiter(fmt.row)) =>
        /\ Len(fmt.fields) = 10
        /\ SubSeq(fmt.fields, 1, 8) = TextOf(FieldValues(fmt.user))
        /\ SubSeq(fmt.fields, 9, 10) =
              IF fmt.manager = None
              THEN TextOf(<< "none", "none" >>)
              ELSE TextOf(<< fmt.manager[1].id, fmt.manager[1].display_name >>)
\* The root row of a record with fields absent and present has been split.
C17_Witness ==
    /\ fmt.pc = "split"
    /\ NoDelimiter(fmt.row)
    /\ fmt.manager = None
    /\ fmt.user.mail = None
    /\ fmt.user.job_title = Some("Staff Engineer")
    /\ Len(fmt.fields) = 10

====
